---- MODULE Spec2Model ----
(***************************************************************************)
(* Model of owfmodules.avrisp.flash_dump (FlashDump.run / process / dump). *)
(*                                                                         *)
(* One run of the module is a sequential program; `pc' is its position.   *)
(* Every call on a collaborator (GPIO, SPI, logger, file) is recorded, in  *)
(* program order, in the observation sequence `events'.  Each call that    *)
(* can raise has a failing outcome, which run() catches (lines 154-159).   *)
(***************************************************************************)
EXTENDS Integers, Sequences, FiniteSets

VARIABLES
    pc,             \* position in run()/process()/dump()
    owf_serial,     \* self.owf_serial: TRUE once connect() found the hardware
    detect_target,  \* advanced_options["detect_target"]["Value"]
    flash_size,     \* advanced_options["flash_size"]["Value"]
    intelhex,       \* options["intelhex"]["Value"]
    device,         \* result of get_device_id(): <<>> is None, <<n>> a device of flash size n
    direction,      \* reset.direction
    reset,          \* level of the reset line (reset.status)
    dump,           \* the bytearray `dump' of dump(): the bytes appended since taken_up
    current_addr,   \* loop variable of dump()
    file,           \* the dump file (options["dumpfile"]): NoFile while not written
    exc,            \* <<>>, or <<what, where>> for the exception caught by run()
    taken_up,       \* word address at which the exploration takes the run up (0: from the start)
    events          \* every collaborator call made so far, in order

vars == <<pc, owf_serial, detect_target, flash_size, intelhex, device, direction,
          reset, dump, current_addr, file, exc, taken_up, events>>

(***************************************************************************)
(* Bounds of the exploration.                                              *)
(***************************************************************************)
\* Loop iterations explored per run; the runs of flash sizes 0 .. 2*MaxWords+1
\* are explored to their end.
MaxWords == 2
\* Longest image SpecHex hands to the Intel HEX writer (record edges 0, 1, 31, 32, 33).
MaxImage == 33

(***************************************************************************)
(* Program constants.                                                      *)
(***************************************************************************)
\* process(): "if flash_size > 131072"
MaxFlashSize == 131072
\* struct.pack("<H", n) accepts 0 <= n < 65536
PackLimit == 65536
\* low_byte_read = b'\x20', high_byte_read = b'\x28'
low_byte_read == 32
high_byte_read == 40
\* enable_mem_access_cmd = b'\xac\x53\x00\x00'
enable_mem_access_cmd == <<172, 83, 0, 0>>

\* A flash size beyond the maximum, spanning two 64K-word pages.
OverSize == MaxFlashSize + 2

\* Values of the flash_size option, and of a detected device's flash size.
FlashSizes == (0 .. (2 * MaxWords + 1)) \cup {OverSize}

\* Bytes the target answers with.
Bytes == {0, 255}

\* Level of the reset line.
Levels == {0, 1}

(***************************************************************************)
(* Observation of collaborator calls.                                      *)
(*   kind: "dir" | "gpio" | "cfg" | "tx" | "rx" | "log" | "call" | "file"  *)
(*   data: bytes sent / received, or level written                         *)
(*   msg : log message or callee                                           *)
(*   reset: level of the reset line when the call was made                 *)
(***************************************************************************)
EvAt(k, d, m, level) == [kind |-> k, data |-> d, msg |-> m, reset |-> level]

Ev(k, d, m) == EvAt(k, d, m, reset)

Emit(e) == events' = Append(events, e)

\* struct.pack("<H", n): little-endian unsigned short
PackH(n) == <<n % 256, n \div 256>>

\* Raise for a failure that is logged and retried in place instead of ending process().
Raise_Retry(what) ==
    /\ pc' = pc
    /\ exc' = <<what, pc>>
    /\ Emit(Ev("log", <<>>, "Exception"))

\* Raise for a handler that swallows the exception without logging it.
Raise_Silent(what) ==
    /\ pc' = "done"
    /\ exc' = <<what, pc>>
    /\ UNCHANGED events

\* run(), lines 156-159: any exception of process() is logged as an error
\* and run() returns.
Raise(what) ==
    /\ pc' = "done"
    /\ exc' = <<what, pc>>
    /\ Emit(Ev("log", <<>>, "Exception"))

\* The dump file before dump() writes it.
NoFile == [written |-> FALSE, format |-> "none", bytes |-> <<>>, records |-> <<>>]

Init ==
    /\ pc = "run"
    /\ owf_serial = FALSE
    /\ detect_target \in BOOLEAN
    /\ flash_size \in FlashSizes
    /\ intelhex \in BOOLEAN
    /\ device = <<>>
    /\ direction = "input"
    /\ reset \in Levels
    /\ dump = <<>>
    /\ current_addr = 0
    /\ file = NoFile
    /\ exc = <<>>
    /\ taken_up = 0
    /\ events = <<>>

(***************************************************************************)
(* run(), lines 151-155                                                    *)
(***************************************************************************)
Connect ==
    /\ pc = "run"
    /\ \E found \in BOOLEAN :
        /\ owf_serial' = found
        /\ pc' = IF found THEN "detect" ELSE "done"
    /\ UNCHANGED <<detect_target, flash_size, intelhex, device, direction, reset,
                   dump, current_addr, file, exc, taken_up, events>>

(***************************************************************************)
(* process(), lines 106-109                                                *)
(***************************************************************************)
Detect ==
    /\ pc = "detect"
    /\ pc' = "check"
    /\ IF detect_target
       THEN \E d \in {<<>>} \cup {<<n>> : n \in FlashSizes} :
              /\ device' = d
              /\ flash_size' = IF d # <<>> THEN d[1] ELSE flash_size
              /\ Emit(Ev("call", <<>>, "get_device_id"))
       ELSE UNCHANGED <<device, flash_size, events>>
    /\ UNCHANGED <<owf_serial, detect_target, intelhex, direction, reset,
                   dump, current_addr, file, exc, taken_up>>

(***************************************************************************)
(* process(), lines 111-113                                                *)
(***************************************************************************)
CheckSize ==
    /\ pc = "check"
    /\ pc' = "direction"
    /\ IF flash_size > MaxFlashSize
       THEN Emit(Ev("log", <<>>, "InvalidMax"))
       ELSE UNCHANGED events
    /\ UNCHANGED <<owf_serial, detect_target, flash_size, intelhex, device, direction,
                   reset, dump, current_addr, file, exc, taken_up>>

(***************************************************************************)
(* process(), lines 115-118: reset.direction = GPIO.OUTPUT                 *)
(***************************************************************************)
SetDirection ==
    /\ pc = "direction"
    /\ \/ /\ direction' = "output"
          /\ Emit(Ev("dir", <<>>, "output"))
          /\ pc' = "idle"
          /\ UNCHANGED exc
       \/ /\ Raise("gpio")
          /\ UNCHANGED direction
    /\ UNCHANGED <<owf_serial, detect_target, flash_size, intelhex, device,
                   reset, dump, current_addr, file, taken_up>>

\* reset.status = level: the write and its observation
WriteReset(level, next) ==
    \/ /\ reset' = level
       /\ Emit(Ev("gpio", <<level>>, ""))
       /\ pc' = next
       /\ UNCHANGED exc
    \/ /\ Raise("gpio")
       /\ UNCHANGED reset

\* spi_interface.transmit(bytes)
Transmit(bytes, next) ==
    \/ /\ Emit(Ev("tx", bytes, ""))
       /\ pc' = next
       /\ UNCHANGED exc
    \/ Raise("transmit")

(***************************************************************************)
(* process(), lines 120-121: reset.status = 1                              *)
(***************************************************************************)
ResetIdle ==
    /\ pc = "idle"
    /\ WriteReset(1, "configure")
    /\ UNCHANGED <<owf_serial, detect_target, flash_size, intelhex, device, direction,
                   dump, current_addr, file, taken_up>>

(***************************************************************************)
(* process(), lines 123-124: spi_interface.configure(baudrate)             *)
(***************************************************************************)
Configure ==
    /\ pc = "configure"
    /\ \/ /\ Emit(Ev("cfg", <<>>, ""))
          /\ pc' = "enable"
          /\ UNCHANGED exc
       \/ Raise("configure")
    /\ UNCHANGED <<owf_serial, detect_target, flash_size, intelhex, device, direction,
                   reset, dump, current_addr, file, taken_up>>

(***************************************************************************)
(* process(), lines 126-128                                                *)
(***************************************************************************)
EnableCheck ==
    /\ pc = "enable"
    /\ IF ~detect_target
       THEN /\ Emit(Ev("log", <<>>, "EnableInfo"))
            /\ pc' = "en_low"
       ELSE /\ pc' = "decide"
            /\ UNCHANGED events
    /\ UNCHANGED <<owf_serial, detect_target, flash_size, intelhex, device, direction,
                   reset, dump, current_addr, file, exc, taken_up>>

(***************************************************************************)
(* process(), lines 129-130: reset.status = 0                              *)
(***************************************************************************)
EnableLow ==
    /\ pc = "en_low"
    /\ WriteReset(0, "en_tx")
    /\ UNCHANGED <<owf_serial, detect_target, flash_size, intelhex, device, direction,
                   dump, current_addr, file, taken_up>>

(***************************************************************************)
(* process(), lines 131-132: spi_interface.transmit(enable_mem_access_cmd) *)
(***************************************************************************)
EnableTransmit ==
    /\ pc = "en_tx"
    /\ Transmit(enable_mem_access_cmd, "en_high")
    /\ UNCHANGED <<owf_serial, detect_target, flash_size, intelhex, device, direction,
                   reset, dump, current_addr, file, taken_up>>

(***************************************************************************)
(* process(), lines 133-134: "Drive reset high": reset.status = 0          *)
(***************************************************************************)
EnableHigh ==
    /\ pc = "en_high"
    /\ WriteReset(0, "decide")
    /\ UNCHANGED <<owf_serial, detect_target, flash_size, intelhex, device, direction,
                   dump, current_addr, file, taken_up>>

\* Decide calling dump() on the detect_target path only for a detected device.
Decide_OnlyDetected ==
    /\ pc = "decide"
    /\ IF (detect_target /\ device # <<>> /\ flash_size # 0) \/ (~detect_target /\ flash_size # 0)
       THEN /\ events' = events \o <<Ev("log", <<>>, "Start"), Ev("call", <<>>, "dump")>>
            /\ pc' = "dump"
       ELSE IF ~detect_target /\ flash_size = 0
       THEN /\ Emit(Ev("log", <<>>, "InvalidSize"))
            /\ pc' = "done"
       ELSE /\ pc' = "done"
            /\ UNCHANGED events
    /\ UNCHANGED <<owf_serial, detect_target, flash_size, intelhex, device, direction,
                   reset, dump, current_addr, file, exc, taken_up>>

(***************************************************************************)
(* process(), lines 136-141                                                *)
(***************************************************************************)
Decide ==
    /\ pc = "decide"
    /\ IF (detect_target /\ flash_size # 0) \/ (~detect_target /\ flash_size # 0)
       THEN /\ events' = events \o <<Ev("log", <<>>, "Start"), Ev("call", <<>>, "dump")>>
            /\ pc' = "dump"
       ELSE IF ~detect_target /\ flash_size = 0
       THEN /\ Emit(Ev("log", <<>>, "InvalidSize"))
            /\ pc' = "done"
       ELSE /\ pc' = "done"
            /\ UNCHANGED events
    /\ UNCHANGED <<owf_serial, detect_target, flash_size, intelhex, device, direction,
                   reset, dump, current_addr, file, exc, taken_up>>

\* DumpEnter driving the reset line to the wrong level: reset.status = 1.
DumpEnter_High ==
    /\ pc = "dump"
    /\ dump' = <<>>
    /\ current_addr' = 0
    /\ WriteReset(1, "loop")
    /\ UNCHANGED <<owf_serial, detect_target, flash_size, intelhex, device, direction,
                   file, taken_up>>

(***************************************************************************)
(* dump(), lines 71-75: dump = bytearray(); reset.status = 0               *)
(***************************************************************************)
DumpEnter ==
    /\ pc = "dump"
    /\ dump' = <<>>
    /\ current_addr' = 0
    /\ WriteReset(0, "loop")
    /\ UNCHANGED <<owf_serial, detect_target, flash_size, intelhex, device, direction,
                   file, taken_up>>

\* LoopHead with a range one word too long: range(0, flash_size // 2 + 1).
LoopHead_OneTooMany ==
    /\ pc = "loop"
    /\ IF current_addr < flash_size \div 2 + 1
       THEN /\ current_addr - taken_up < MaxWords
            /\ pc' = "tx_high"
       ELSE pc' = "dump_exit"
    /\ UNCHANGED <<owf_serial, detect_target, flash_size, intelhex, device, direction,
                   reset, dump, current_addr, file, exc, taken_up, events>>

(***************************************************************************)
(* dump(), line 77: for current_addr in range(0, flash_size // 2)          *)
(* current_addr holds the next value of the range.                         *)
(***************************************************************************)
LoopHead ==
    /\ pc = "loop"
    /\ IF current_addr < flash_size \div 2
       THEN /\ current_addr - taken_up < MaxWords
            /\ pc' = "tx_high"
       ELSE pc' = "dump_exit"
    /\ UNCHANGED <<owf_serial, detect_target, flash_size, intelhex, device, direction,
                   reset, dump, current_addr, file, exc, taken_up, events>>

\* TransmitRead that loads the extended address before the first read of a page.
TransmitRead_ExtendedFirst(opcode, next) ==
    IF current_addr >= PackLimit
    THEN Raise("struct.error")
    ELSE IF opcode = high_byte_read /\ current_addr % PackLimit = 0
    THEN \/ /\ events' = events \o
                   <<Ev("tx", <<77, 0, current_addr \div PackLimit, 0>>, ""),
                     Ev("tx", <<opcode>> \o PackH(current_addr), "")>>
            /\ pc' = next
            /\ UNCHANGED exc
         \/ Raise("transmit")
    ELSE Transmit(<<opcode>> \o PackH(current_addr), next)

\* transmit(opcode + struct.pack("<H", current_addr)); struct.pack raises
\* struct.error for a value that does not fit 16 bits.
TransmitRead(opcode, next) ==
    IF current_addr >= PackLimit
    THEN Raise("struct.error")
    ELSE Transmit(<<opcode>> \o PackH(current_addr), next)

\* dump.extend(spi_interface.receive(1))
ReceiveByte(next) ==
    \/ \E b \in Bytes :
          /\ Emit(Ev("rx", <<b>>, ""))
          /\ dump' = Append(dump, b)
          /\ pc' = next
          /\ UNCHANGED exc
    \/ /\ Raise("receive")
       /\ UNCHANGED dump

(***************************************************************************)
(* dump(), lines 78-79                                                     *)
(***************************************************************************)
TxHigh ==
    /\ pc = "tx_high"
    /\ TransmitRead(high_byte_read, "rx_high")
    /\ UNCHANGED <<owf_serial, detect_target, flash_size, intelhex, device, direction,
                   reset, dump, current_addr, file, taken_up>>

(***************************************************************************)
(* dump(), line 80                                                         *)
(***************************************************************************)
RxHigh ==
    /\ pc = "rx_high"
    /\ ReceiveByte("tx_low")
    /\ UNCHANGED <<owf_serial, detect_target, flash_size, intelhex, device, direction,
                   reset, current_addr, file, taken_up>>

(***************************************************************************)
(* dump(), lines 81-82                                                     *)
(***************************************************************************)
TxLow ==
    /\ pc = "tx_low"
    /\ TransmitRead(low_byte_read, "rx_low")
    /\ UNCHANGED <<owf_serial, detect_target, flash_size, intelhex, device, direction,
                   reset, dump, current_addr, file, taken_up>>

(***************************************************************************)
(* dump(), line 83, and the step of the range to the next address          *)
(***************************************************************************)
RxLow ==
    /\ pc = "rx_low"
    /\ ReceiveByte("loop")
    /\ current_addr' = IF pc' = "loop" THEN current_addr + 1 ELSE current_addr
    /\ UNCHANGED <<owf_serial, detect_target, flash_size, intelhex, device, direction,
                   reset, file, taken_up>>

(***************************************************************************)
(* dump(), lines 84-86: reset.status = 1; log success                      *)
(***************************************************************************)
DumpExit ==
    /\ pc = "dump_exit"
    /\ \/ /\ reset' = 1
          /\ events' = events \o <<Ev("gpio", <<1>>, ""), Ev("log", <<>>, "Success")>>
          /\ pc' = "save"
          /\ UNCHANGED exc
       \/ /\ Raise("gpio")
          /\ UNCHANGED reset
    /\ UNCHANGED <<owf_serial, detect_target, flash_size, intelhex, device, direction,
                   dump, current_addr, file, taken_up>>

(***************************************************************************)
(* Intel HEX file as IntelHex.puts(0, data) / write_hex_file() lay it out: *)
(* data records of at most 16 bytes, an extended linear address record at  *)
(* the head of every 64K segment when the data reaches beyond 64K, and the *)
(* end-of-file record.  A record is the sequence of its bytes.             *)
(***************************************************************************)
RECURSIVE Sum(_)
Sum(s) == IF s = <<>> THEN 0 ELSE s[1] + Sum(Tail(s))

\* Checksum as the one's complement of the sum instead of the two's complement.
Checksum_OnesComplement(body) == 255 - (Sum(body) % 256)

Checksum(body) == (256 - (Sum(body) % 256)) % 256

Min(a, b) == IF a <= b THEN a ELSE b

DataRecord(img, k) ==
    LET lo == 16 * k
        n == Min(16, Len(img) - lo)
        low_addr == lo % 65536
        body == <<n, low_addr \div 256, low_addr % 256, 0>> \o SubSeq(img, lo + 1, lo + n)
    IN  Append(body, Checksum(body))

OffsetRecord(high_ofs) ==
    LET body == <<2, 0, 0, 4, high_ofs \div 256, high_ofs % 256>>
    IN  Append(body, Checksum(body))

EofRecord == <<0, 0, 0, 1, 255>>

HexFile(img) ==
    LET chunks == (Len(img) + 15) \div 16
        need_offset_record == Len(img) - 1 > 65535
        segments == (Len(img) + 65535) \div 65536
        total == IF need_offset_record THEN chunks + segments ELSE chunks
        rec(i) == IF need_offset_record
                  THEN LET seg == (i - 1) \div 4097
                           r == (i - 1) % 4097
                       IN  IF r = 0 THEN OffsetRecord(seg)
                           ELSE DataRecord(img, seg * 4096 + r - 1)
                  ELSE DataRecord(img, i - 1)
    IN  [i \in 1 .. total |-> rec(i)] \o <<EofRecord>>

(***************************************************************************)
(* dump(), lines 87-97: save the dump, log the result                      *)
(***************************************************************************)
Save ==
    /\ pc = "save"
    /\ \/ /\ file' = IF intelhex
                     THEN [written |-> TRUE, format |-> "hex", bytes |-> <<>>,
                           records |-> HexFile(dump)]
                     ELSE [written |-> TRUE, format |-> "raw", bytes |-> dump,
                           records |-> <<>>]
          /\ events' = events \o <<Ev("file", <<>>, ""), Ev("log", <<>>, "Saved")>>
          /\ pc' = "done"
          /\ UNCHANGED exc
       \/ /\ Raise("file")
          /\ UNCHANGED file
    /\ UNCHANGED <<owf_serial, detect_target, flash_size, intelhex, device, direction,
                   reset, dump, current_addr, taken_up>>

Next ==
    \/ Connect
    \/ Detect
    \/ CheckSize
    \/ SetDirection
    \/ ResetIdle
    \/ Configure
    \/ EnableCheck
    \/ EnableLow
    \/ EnableTransmit
    \/ EnableHigh
    \/ Decide
    \/ DumpEnter
    \/ LoopHead
    \/ TxHigh
    \/ RxHigh
    \/ TxLow
    \/ RxLow
    \/ DumpExit
    \/ Save

Spec == Init /\ [][Next]_vars

TypeOK ==
    /\ pc \in {"run", "detect", "check", "direction", "idle", "configure", "enable",
               "en_low", "en_tx", "en_high", "decide", "dump", "loop", "tx_high",
               "rx_high", "tx_low", "rx_low", "dump_exit", "save", "done"}
    /\ reset \in Levels
    /\ Len(dump) <= 2 * (current_addr - taken_up) + 1

(***************************************************************************)
(* The state of a run on entering the read loop for word address n, as the *)
(* actions above produce it: the calls of process() up to dump(), then for *)
(* each word the two read commands and their answers.                      *)
(***************************************************************************)
ProcessEvents(detect, size, level0) ==
    (IF detect THEN <<EvAt("call", <<>>, "get_device_id", level0)>> ELSE <<>>)
    \o (IF size > MaxFlashSize THEN <<EvAt("log", <<>>, "InvalidMax", level0)>> ELSE <<>>)
    \o <<EvAt("dir", <<>>, "output", level0),
         EvAt("gpio", <<1>>, "", level0),
         EvAt("cfg", <<>>, "", 1)>>
    \o (IF detect THEN <<>>
        ELSE <<EvAt("log", <<>>, "EnableInfo", 1),
               EvAt("gpio", <<0>>, "", 1),
               EvAt("tx", enable_mem_access_cmd, "", 0),
               EvAt("gpio", <<0>>, "", 0)>>)
    \o <<EvAt("log", <<>>, "Start", IF detect THEN 1 ELSE 0),
         EvAt("call", <<>>, "dump", IF detect THEN 1 ELSE 0),
         EvAt("gpio", <<0>>, "", IF detect THEN 1 ELSE 0)>>

ReadEvents(img, n) ==
    [i \in 1 .. 4 * n |->
        LET a == (i - 1) \div 4
            j == (i - 1) % 4
        IN  CASE j = 0 -> EvAt("tx", <<high_byte_read>> \o PackH(a), "", 0)
              [] j = 1 -> EvAt("rx", <<img[2 * a + 1]>>, "", 0)
              [] j = 2 -> EvAt("tx", <<low_byte_read>> \o PackH(a), "", 0)
              [] j = 3 -> EvAt("rx", <<img[2 * a + 2]>>, "", 0)]

LoopEvents(detect, size, level0, img, n) ==
    ProcessEvents(detect, size, level0) \o ReadEvents(img, n)

\* Lemma: every state of Spec at the head of the loop has this shape.
LoopShape ==
    pc = "loop" =>
        /\ taken_up = 0
        /\ Len(dump) = 2 * current_addr
        /\ reset = 0
        /\ direction = "output"
        /\ owf_serial
        /\ exc = <<>>
        /\ file = NoFile
        /\ events = LoopEvents(detect_target, flash_size, events[1].reset, dump, current_addr)

(***************************************************************************)
(* SpecPage: the read loop taken up at word address PageStart, shortly     *)
(* before the 64K-word page boundary, in a state of the shape of           *)
(* LoopShape, for the largest size process() accepts without complaint and *)
(* for one beyond it.  What the run did before the take-up is not stored:  *)
(* `dump' holds the bytes appended and `events' the calls made from the    *)
(* take-up on; before it the image holds 2 * taken_up bytes and the calls  *)
(* are those of LoopEvents.  The exploration ends where dump() saves the   *)
(* file.                                                                   *)
(***************************************************************************)
PageStart == PackLimit - (MaxWords - 1)

InitPage ==
    /\ pc = "loop"
    /\ owf_serial = TRUE
    /\ detect_target \in BOOLEAN
    /\ flash_size \in {MaxFlashSize, OverSize}
    /\ intelhex \in BOOLEAN
    /\ device \in (IF detect_target THEN {<<>>, <<flash_size>>} ELSE {<<>>})
    /\ direction = "output"
    /\ reset = 0
    /\ dump = <<>>
    /\ current_addr = PageStart
    /\ file = NoFile
    /\ exc = <<>>
    /\ taken_up = PageStart
    /\ events = <<>>

NextPage ==
    \/ LoopHead
    \/ TxHigh
    \/ RxHigh
    \/ TxLow
    \/ RxLow
    \/ DumpExit

SpecPage == InitPage /\ [][NextPage]_vars

(***************************************************************************)
(* Vocabulary of the properties.                                           *)
(***************************************************************************)
EventIndex == 1 .. Len(events)

IsSpi(e) == e.kind \in {"tx", "rx"}

IsEnable(e) == e.kind = "tx" /\ e.data = enable_mem_access_cmd

IsReadOf(e, opcode) == e.kind = "tx" /\ Len(e.data) = 3 /\ e.data[1] = opcode

IsRead(e) == IsReadOf(e, low_byte_read) \/ IsReadOf(e, high_byte_read)

\* extended-address-load command 4D 00 <page> 00
IsExtendedLoad(e) ==
    e.kind = "tx" /\ Len(e.data) = 4 /\ e.data[1] = 77 /\ e.data[2] = 0 /\ e.data[4] = 0

IsResetWrite(e) == e.kind = "gpio"

IsLog(e, m) == e.kind = "log" /\ e.msg = m

IsCall(e, f) == e.kind = "call" /\ e.msg = f

Logged(m) == \E i \in EventIndex : IsLog(events[i], m)

DumpCalled == \E i \in EventIndex : IsCall(events[i], "dump")

\* The read commands transmitted so far, in order.
Reads == SelectSeq(events, IsRead)

\* The word address a read command names (the inverse of PackH).
AddrOf(e) == e.data[2] + 256 * e.data[3]

\* The read loop of dump() ran to completion.
LoopCompleted == pc \in {"dump_exit", "save"} \/ (pc = "done" /\ Logged("Success"))

\* run() has returned after a transmit or receive of the read loop failed.
ReadFailed ==
    /\ pc = "done"
    /\ exc # <<>>
    /\ exc[1] \in {"transmit", "receive"}
    /\ exc[2] \in {"tx_high", "rx_high", "tx_low", "rx_low"}

\* The byte the target answered to the read command `opcode' for word a.
HasAnswer(opcode, a) ==
    \E i \in EventIndex :
        /\ IsReadOf(events[i], opcode) /\ AddrOf(events[i]) = a
        /\ i < Len(events) /\ events[i + 1].kind = "rx"

Answer(opcode, a) ==
    LET i == CHOOSE i \in EventIndex :
                /\ IsReadOf(events[i], opcode) /\ AddrOf(events[i]) = a
                /\ i < Len(events) /\ events[i + 1].kind = "rx"
    IN  events[i + 1].data[1]

(***************************************************************************)
(* C1: whenever run() has returned after a transmit or receive of the read *)
(* loop failed, the reset line is at the inactive (high) level.            *)
(***************************************************************************)
C1_ResetHighAfterReadFailure == ReadFailed => reset = 1

(***************************************************************************)
(* C2: in a run whose effective flash_size (the option after detection) is *)
(* 0, no SPI transmit or receive is ever issued, so none precedes the      *)
(* report of "Invalid flash size".                                         *)
(***************************************************************************)
C2_NoSpiForZeroSize ==
    (pc \notin {"run", "detect"} /\ flash_size = 0) =>
        \A i \in EventIndex : ~IsSpi(events[i])

(***************************************************************************)
(* C3: once "Invalid flash size. Maximum allowed flash size" is reported,  *)
(* no write of the reset line, no SPI transmit or receive and no call of   *)
(* dump() follows.                                                         *)
(***************************************************************************)
C3_OverMaxNotAttempted ==
    \A i \in EventIndex : \A j \in EventIndex :
        (IsLog(events[i], "InvalidMax") /\ i < j) =>
            /\ ~IsResetWrite(events[j])
            /\ ~IsSpi(events[j])
            /\ ~IsCall(events[j], "dump")

(***************************************************************************)
(* C4: with detect_target enabled and a detection that returned None, no   *)
(* SPI transmit or receive is issued, whatever flash_size held.            *)
(***************************************************************************)
C4_NoSpiWhenDetectionFails ==
    (detect_target /\ pc \notin {"run", "detect"} /\ device = <<>>) =>
        \A i \in EventIndex : ~IsSpi(events[i])

(***************************************************************************)
(* C5: when process() returns without having called dump() (the request    *)
(* was rejected), the last level the module wrote to the reset line, if it *)
(* wrote any, is the inactive (high) level.                                *)
(***************************************************************************)
C5_ResetReleasedWhenRejected ==
    (pc = "done" /\ exc = <<>> /\ ~DumpCalled) =>
        \A i \in EventIndex :
            (IsResetWrite(events[i]) /\ events[i].data # <<1>>) =>
                \E j \in EventIndex :
                    j > i /\ IsResetWrite(events[j]) /\ events[j].data = <<1>>

(***************************************************************************)
(* C6: once the read loop has run to completion, the image is exactly      *)
(* flash_size bytes long, and so is a raw dump file.                       *)
(***************************************************************************)
C6_ImageLengthIsFlashSize ==
    /\ LoopCompleted => Len(dump) = flash_size
    /\ (file.written /\ file.format = "raw") => Len(file.bytes) = flash_size

(***************************************************************************)
(* C7: in the finalized image the byte at position 2*addr is the answer to *)
(* the low-byte read command for addr and the byte at position 2*addr+1    *)
(* the answer to the high-byte read command for addr.                      *)
(***************************************************************************)
C7_LowByteFirst ==
    LoopCompleted =>
        \A a \in 0 .. (flash_size \div 2 - 1) :
            /\ HasAnswer(low_byte_read, a)
            /\ HasAnswer(high_byte_read, a)
            /\ dump[2 * a + 1] = Answer(low_byte_read, a)
            /\ dump[2 * a + 2] = Answer(high_byte_read, a)

(***************************************************************************)
(* C8: for flash_size = 2n, once the read loop has run to completion, the  *)
(* read commands transmitted are those of the word addresses 0, 1, ...,    *)
(* n-1 in ascending order, one low-byte and one high-byte command per      *)
(* address and no other, and the image holds 2n bytes.                     *)
(***************************************************************************)
C8_EachWordOnceAscending ==
    (LoopCompleted /\ flash_size % 2 = 0) =>
        LET n == flash_size \div 2
        IN  /\ Len(Reads) = 2 * n
            /\ \A a \in 0 .. (n - 1) :
                  /\ AddrOf(Reads[2 * a + 1]) = a
                  /\ AddrOf(Reads[2 * a + 2]) = a
                  /\ {Reads[2 * a + 1].data[1], Reads[2 * a + 2].data[1]}
                        = {low_byte_read, high_byte_read}
            /\ Len(SelectSeq(events, LAMBDA e : IsReadOf(e, low_byte_read))) = n
            /\ Len(SelectSeq(events, LAMBDA e : IsReadOf(e, high_byte_read))) = n
            /\ Len(dump) = 2 * n

\* A run of flash_size 4 whose loop completed: 2 low-byte and 2 high-byte reads.
C8_Witness ==
    /\ pc = "save"
    /\ flash_size = 4
    /\ Len(Reads) = 4
    /\ Len(dump) = 4

(***************************************************************************)
(* C9: every flash read command is preceded by a transmission of the       *)
(* programming-enable command AC 53 00 00 made while the reset line was at *)
(* the active (low) level.                                                 *)
(***************************************************************************)
C9_EnableBeforeFirstRead ==
    \A j \in EventIndex :
        IsRead(events[j]) =>
            \E i \in 1 .. (j - 1) : IsEnable(events[i]) /\ events[i].reset = 0

(***************************************************************************)
(* C10: when a run whose flash_size spans two 64K-word pages is over and   *)
(* no collaborator call failed, exactly one extended-address-load command  *)
(* was transmitted, immediately before the first read of word address      *)
(* 65536, and the read loop went on to the last word address.              *)
(***************************************************************************)
C10_OneExtendedLoadAtPageBoundary ==
    (/\ pc = "done"
     /\ flash_size \div 2 > PackLimit
     /\ (exc = <<>> \/ exc[1] = "struct.error")) =>
        /\ \E i \in EventIndex :
              /\ IsExtendedLoad(events[i])
              /\ i < Len(events)
              /\ IsRead(events[i + 1])
              /\ \A j \in EventIndex : IsExtendedLoad(events[j]) => j = i
              /\ \A j \in 1 .. (i - 1) :
                    IsRead(events[j]) => AddrOf(events[j]) < PackLimit
        /\ current_addr = flash_size \div 2
        /\ exc = <<>>

(***************************************************************************)
(* C11: in a run whose flash_size is at most 131072, every byte sequence   *)
(* transmitted on the SPI transport is the programming-enable command or a *)
(* low-/high-byte read command; no extended-address-load command is sent.  *)
(***************************************************************************)
C11_NoExtendedLoadWithinOnePage ==
    flash_size <= MaxFlashSize =>
        \A i \in EventIndex :
            events[i].kind = "tx" =>
                /\ IsEnable(events[i]) \/ IsRead(events[i])
                /\ ~IsExtendedLoad(events[i])

\* A completed dump of 2 words on the path that enables memory access itself.
C11_Witness ==
    /\ pc = "done"
    /\ Logged("Saved")
    /\ flash_size = 4
    /\ Len(Reads) = 4
    /\ \E i \in EventIndex : IsEnable(events[i])

(***************************************************************************)
(* SpecHex: dump() at line 87 holding an image drawn from a bounded set,   *)
(* of every length 0 .. MaxImage, to be saved in Intel HEX format.         *)
(* `events' holds the calls made from there on.                            *)
(***************************************************************************)
ImagePatterns == {0, 1, 2}

Image(n, p) ==
    [i \in 1 .. n |-> CASE p = 0 -> 0
                        [] p = 1 -> 255
                        [] OTHER -> (7 * i + 3) % 256]

InitHex ==
    /\ pc = "save"
    /\ owf_serial = TRUE
    /\ detect_target = FALSE
    /\ \E n \in 0 .. MaxImage : \E p \in ImagePatterns :
          /\ dump = Image(n, p)
          /\ flash_size = n
          /\ current_addr = n \div 2
    /\ intelhex = TRUE
    /\ device = <<>>
    /\ direction = "output"
    /\ reset = 1
    /\ file = NoFile
    /\ exc = <<>>
    /\ taken_up = 0
    /\ events = <<>>

NextHex == Save

SpecHex == InitHex /\ [][NextHex]_vars

(***************************************************************************)
(* Reading an Intel HEX file back: every record must carry its length and  *)
(* a checksum that makes the sum of its bytes 0 modulo 256; data records   *)
(* place their bytes at (upper << 16) + address; the end-of-file record    *)
(* must be the last one.  The memory read is a set of <<address, byte>>.   *)
(***************************************************************************)
BadHex == {<<-1, -1>>}

ValidRecord(r) == Len(r) >= 5 /\ Len(r) = r[1] + 5 /\ Sum(r) % 256 = 0

RECURSIVE DecodeFrom(_, _, _, _)
DecodeFrom(recs, i, upper, mem) ==
    IF i > Len(recs) THEN BadHex
    ELSE LET r == recs[i]
         IN  IF ~ValidRecord(r) THEN BadHex
             ELSE CASE r[4] = 1 -> IF i = Len(recs) THEN mem ELSE BadHex
                    [] r[4] = 4 -> DecodeFrom(recs, i + 1, r[5] * 256 + r[6], mem)
                    [] r[4] = 0 ->
                         DecodeFrom(recs, i + 1, upper,
                             mem \cup {<<upper * 65536 + r[2] * 256 + r[3] + k - 1, r[4 + k]>> :
                                         k \in 1 .. r[1]})
                    [] OTHER -> BadHex

\* The image of a file: the bytes at addresses 0 .. n-1 when the file holds
\* exactly one byte for each of them, <<-1>> otherwise.
DecodeHex(recs) ==
    LET mem == DecodeFrom(recs, 1, 0, {})
        n == Cardinality(mem)
    IN  IF {m[1] : m \in mem} = 0 .. (n - 1)
        THEN [i \in 1 .. n |-> (CHOOSE m \in mem : m[1] = i - 1)[2]]
        ELSE <<-1>>

(***************************************************************************)
(* C12: the Intel HEX file dump() writes ends with the end-of-file record, *)
(* every record of it carries a valid checksum, and decoding it yields the *)
(* image exactly, byte for byte and with the same length.                  *)
(***************************************************************************)
C12_HexRoundTrip ==
    (file.written /\ intelhex) =>
        /\ file.format = "hex"
        /\ file.records[Len(file.records)] = EofRecord
        /\ \A i \in 1 .. Len(file.records) : ValidRecord(file.records[i])
        /\ DecodeHex(file.records) = dump
        /\ Len(DecodeHex(file.records)) = Len(dump)

\* An image of 33 bytes, one byte beyond the second full record, was written.
C12_Witness ==
    /\ file.written
    /\ file.format = "hex"
    /\ Len(dump) = 33
    /\ Len(file.records) = 4
    /\ \E i \in 1 .. 33 : dump[i] # 0

(***************************************************************************)
(* C13: in a run that completed normally (the file was saved), every read  *)
(* command and every answer of the loop happened with the reset line low,  *)
(* after a write of the low level and with no write of the high level in   *)
(* between; after the last answer the line was driven high exactly once,   *)
(* and the file was written only after that.                               *)
(***************************************************************************)
DumpStart == CHOOSE i \in EventIndex : IsCall(events[i], "dump")

\* Index of the last SPI call of dump(), or of the call of dump() when it made none.
LastOfLoop ==
    CHOOSE i \in EventIndex :
        /\ i >= DumpStart
        /\ i = DumpStart \/ IsSpi(events[i])
        /\ \A j \in EventIndex : (j > i) => ~IsSpi(events[j])

IsHighWrite(e) == IsResetWrite(e) /\ e.data = <<1>>

IsLowWrite(e) == IsResetWrite(e) /\ e.data = <<0>>

C13_ResetLowAroundLoopThenFile ==
    Logged("Saved") =>
        /\ \A i \in EventIndex :
              (i > DumpStart /\ IsSpi(events[i])) =>
                  /\ events[i].reset = 0
                  /\ \E j \in 1 .. (i - 1) :
                        /\ IsLowWrite(events[j])
                        /\ \A k \in (j + 1) .. (i - 1) : ~IsHighWrite(events[k])
        /\ Cardinality({j \in EventIndex : j > LastOfLoop /\ IsHighWrite(events[j])}) = 1
        /\ \A f \in EventIndex :
              events[f].kind = "file" =>
                  \E h \in (LastOfLoop + 1) .. (f - 1) : IsHighWrite(events[h])

\* A saved dump of 2 words.
C13_Witness ==
    /\ Logged("Saved")
    /\ file.written
    /\ Len(Reads) = 4
    /\ reset = 1

(***************************************************************************)
(* C14: every read command consists of the opcode followed by the word     *)
(* address being read, most significant byte first.                        *)
(***************************************************************************)
C14_AddressBigEndian ==
    /\ pc = "rx_high" =>
          events[Len(events)].data =
              <<high_byte_read, current_addr \div 256, current_addr % 256>>
    /\ pc = "rx_low" =>
          events[Len(events)].data =
              <<low_byte_read, current_addr \div 256, current_addr % 256>>

(***************************************************************************)
(* C15: once a transmit or receive of the read loop has failed, the run is *)
(* over: the report of the failure is the last call made (no further SPI   *)
(* call, no retry), and no file is written.  A file is written only when   *)
(* all flash_size/2 words were read and answered.                          *)
(***************************************************************************)
LoopPositions == {"tx_high", "rx_high", "tx_low", "rx_low"}

LoopFailure ==
    /\ exc # <<>>
    /\ exc[1] \in {"transmit", "receive"}
    /\ exc[2] \in LoopPositions

ExceptionLogs == {i \in EventIndex : IsLog(events[i], "Exception")}

C15_FailureEndsRunWithoutFile ==
    /\ LoopFailure =>
          /\ pc = "done"
          /\ IsLog(events[Len(events)], "Exception")
          /\ Cardinality(ExceptionLogs) = 1
          /\ ~file.written
          /\ \A i \in EventIndex : events[i].kind # "file"
    /\ file.written =>
          /\ exc = <<>>
          /\ Len(Reads) = 2 * (flash_size \div 2)
          /\ Len(SelectSeq(events, LAMBDA e : e.kind = "rx")) = 2 * (flash_size \div 2)

\* The receive of the second byte of word 1 failed, after three answers.
C15_Witness ==
    /\ pc = "done"
    /\ exc = <<"receive", "rx_low">>
    /\ current_addr = 1
    /\ Len(dump) = 3

(***************************************************************************)
(* C16: when the read loop was aborted by a transmit or receive failure,   *)
(* the image buffer holds complete words only: its length is even and is   *)
(* twice the number of word addresses fully read.                          *)
(***************************************************************************)
C16_NoPartialWord ==
    ReadFailed =>
        /\ Len(dump) % 2 = 0
        /\ Len(dump) = 2 * (current_addr - taken_up)

(***************************************************************************)
(* C17: every exception raised inside process() is caught by run(): it is  *)
(* reported by exactly one error log event, which is the last call of the  *)
(* run, and run() has returned; without an exception no such event exists. *)
(***************************************************************************)
C17_ExceptionsCaughtAndLogged ==
    /\ exc # <<>> =>
          /\ pc = "done"
          /\ Cardinality(ExceptionLogs) = 1
          /\ IsLog(events[Len(events)], "Exception")
    /\ exc = <<>> => ExceptionLogs = {}

\* The write of the dump file failed after a completed loop.
C17_Witness ==
    /\ pc = "done"
    /\ exc = <<"file", "save">>
    /\ Logged("Success")
    /\ ~file.written

(***************************************************************************)
(* C18: process() has called dump() exactly when it got past its decision  *)
(* with a non-zero effective flash_size, whatever detect_target is; dump() *)
(* is called at most once; and the effective flash_size is the detected    *)
(* size when detect_target is set and a device was detected, and the       *)
(* unchanged option otherwise.                                             *)
(***************************************************************************)
DumpPositions == {"dump", "loop", "tx_high", "rx_high", "tx_low", "rx_low", "dump_exit", "save"}

\* process() has evaluated the condition of lines 136-137.
Decided ==
    /\ owf_serial
    /\ \/ pc \in DumpPositions
       \/ pc = "done" /\ (exc = <<>> \/ exc[2] \in DumpPositions)

C18_DumpIffNonZero ==
    /\ [](/\ Decided => (DumpCalled <=> flash_size # 0)
          /\ ~Decided => ~DumpCalled
          /\ Cardinality({i \in EventIndex : IsCall(events[i], "dump")}) <= 1)
    /\ [][flash_size' = IF pc = "detect" /\ detect_target /\ device' # <<>>
                        THEN device'[1]
                        ELSE flash_size]_vars

\* A dump made with the option's size although detection returned no device.
C18_Witness ==
    /\ pc = "done"
    /\ detect_target
    /\ device = <<>>
    /\ DumpCalled
    /\ Logged("Saved")

====
